---- MODULE Spec2Model ----
(***************************************************************************)
(* A model of simple-broadcaster (src/src/lib.rs): a hub                   *)
(* (Arc<Mutex<BroadcasterInner>>) holding one mpsc::SyncSender per         *)
(* subscriber, publisher handles (Broadcaster) that fan a message out to   *)
(* every sender under the hub mutex, and subscriber handles (Subscriber)   *)
(* that each own one mpsc::Receiver.                                       *)
(*                                                                         *)
(* Every handle is used by one thread at a time: a Subscriber is not Sync  *)
(* (it owns an mpsc::Receiver), and a handle that is borrowed by a running *)
(* call cannot be dropped.  Blocking calls are split into a call step and  *)
(* the steps that complete them.                                           *)
(***************************************************************************)
EXTENDS Naturals, Sequences, FiniteSets

VARIABLES
    last_id,       \* BroadcasterInner.last_id (UniqueId.0)
    senders,       \* BroadcasterInner.senders: Seq of [id, chan]
    strong_count,  \* Arc::strong_count of the hub; 0 = hub dropped
    lock,          \* owner of the hub Mutex: 0 = free, p = publisher p
    chans,         \* the sync_channel(10) queues: Seq of [buf, rx_alive]
    pubs,          \* Broadcaster handles: Seq of [st, msg, i]
    subs,          \* Subscriber handles: Seq of [st, id, chan]
    ret,           \* per subscriber: the Result its last recv/try_recv returned,
                   \* held until the handle's next call
    calls,         \* history: number of broadcast calls made so far
    log,           \* history: messages in the order their broadcast took the lock
    regAt,         \* history: per subscriber, Len(log) when it was registered
    got,           \* history: per live subscriber, the values its receives returned
    raced,         \* history: per subscriber, it was registered while another clone_as was pending
    woke           \* history: a send parked on a full queue failed when the receiver was dropped

vars == <<last_id, senders, strong_count, lock, chans, pubs, subs, ret,
          calls, log, regAt, got, raced, woke>>


----------------------------------------------------------------------------
\* Bounds of the model (not program constants).
MaxBroadcasts == 2
MaxSubs == 2

\* The publisher handles of the model: the factory's and one clone of it.
Publishers == {1, 2}

\* mpsc::sync_channel(10): the bound of every subscriber queue.
Capacity == 10

----------------------------------------------------------------------------
\* Helpers

Range(q) == {q[k] : k \in 1..Len(q)}

\* UniqueId::new and UniqueId::next
UniqueIdNew == 1
UniqueIdNext(id) == id + 1

\* Results of recv / try_recv (Result<T, Error<T>>)
NoRet == [res |-> "None", val |-> 0]
Ok(v) == [res |-> "Ok", val |-> v]
ErrEmpty == [res |-> "Empty", val |-> 0]
ErrDisconnected == [res |-> "Disconnected", val |-> 0]

\* The hub, and with it every SyncSender, is dropped with its last handle.
SendersDropped == strong_count = 0

\* The messages queued for subscriber s (the buffer of its own channel).
Pending(s) == chans[subs[s].chan].buf

\* Variant without mutual exclusion: the lock is granted in every state.
LockFree_NoMutex == TRUE

\* Mutex::lock succeeds only while nobody holds the hub mutex.
LockFree == lock = 0

\* Variant with replay: a new queue starts with the history of the hub.
NewChannel_Replay == [buf |-> log, rx_alive |-> TRUE]

\* mpsc::sync_channel(10): a new, empty queue whose receiver is alive.
NewChannel == [buf |-> <<>>, rx_alive |-> TRUE]

\* Variant in which a send never fails: a dropped receiver's queue fills up.
SendFails_Never(c) == FALSE

\* SyncSender::send fails (at once, or when woken from a full queue) iff the
\* receiving half was dropped; otherwise it completes once there is room.
SendFails(c) == ~chans[c].rx_alive

\* Variant with unbounded queues: a send always finds room.
SendHasRoom_Unbounded(c) == TRUE

\* SyncSender::send completes while the queue holds fewer than 10 messages.
SendHasRoom(c) == Len(chans[c].buf) < Capacity

\* Publisher p is inside SyncSender::send to channel c, parked on its full queue.
BlockedOn(p, c) ==
    /\ pubs[p].st = "sending"
    /\ pubs[p].i <= Len(senders)
    /\ senders[pubs[p].i].chan = c
    /\ ~SendFails(c)
    /\ ~SendHasRoom(c)

\* Dropping an mpsc::Receiver disconnects the channel and discards what is queued.
DropReceiver(c) == [chans EXCEPT ![c] = [buf |-> <<>>, rx_alive |-> FALSE]]

----------------------------------------------------------------------------
\* broadcasting_channel(name)
Init ==
    /\ calls = 0
    /\ log = <<>>
    /\ regAt = <<0>>
    /\ got = << <<>> >>
    /\ raced = <<FALSE>>
    /\ woke = FALSE
    /\ last_id = UniqueIdNew
    /\ senders = <<[id |-> UniqueIdNew, chan |-> 1]>>
    /\ strong_count = 2
    /\ lock = 0
    /\ chans = <<NewChannel>>
    /\ pubs = <<[st |-> "idle", msg |-> 0, i |-> 0]>>
    /\ subs = <<[st |-> "idle", id |-> UniqueIdNew, chan |-> 1]>>
    /\ ret = <<NoRet>>

----------------------------------------------------------------------------
\* Broadcaster::broadcast(message): the call, up to the request for the lock.
\* The message is tagged with the number of the call, so that every message
\* is distinguishable.
BroadcastCall(p) ==
    /\ pubs[p].st = "idle"
    /\ pubs' = [pubs EXCEPT ![p] = [st |-> "called", msg |-> calls + 1, i |-> 0]]
    /\ calls' = calls + 1
    /\ UNCHANGED <<last_id, senders, strong_count, lock, chans, subs, ret,
                   log, regAt, got, raced, woke>>

\* (*self.inner).lock().unwrap(): the broadcast takes the hub mutex.
BroadcastLock(p) ==
    /\ pubs[p].st = "called"
    /\ LockFree
    /\ lock' = p
    /\ pubs' = [pubs EXCEPT ![p].st = "sending", ![p].i = 1]
    /\ log' = Append(log, pubs[p].msg)
    /\ UNCHANGED <<last_id, senders, strong_count, chans, subs, ret,
                   calls, regAt, got, raced, woke>>

\* Variant that gives up at the first failed send (as `send(..)?` would).
BroadcastSend_AbortOnError(p) ==
    /\ pubs[p].st = "sending"
    /\ pubs[p].i <= Len(senders)
    /\ LET c == senders[pubs[p].i].chan IN
         IF SendFails(c)
         THEN /\ UNCHANGED chans
              /\ pubs' = [pubs EXCEPT ![p].i = Len(senders) + 1]
         ELSE /\ SendHasRoom(c)
              /\ chans' = [chans EXCEPT ![c].buf = Append(@, pubs[p].msg)]
              /\ pubs' = [pubs EXCEPT ![p].i = @ + 1]
    /\ UNCHANGED <<last_id, senders, strong_count, lock, subs, ret,
                   calls, log, regAt, got, raced, woke>>

\* Variant that never waits: a message for a full queue is discarded (as
\* try_send would).
BroadcastSend_TrySend(p) ==
    /\ pubs[p].st = "sending"
    /\ pubs[p].i <= Len(senders)
    /\ LET c == senders[pubs[p].i].chan IN
         IF SendFails(c) \/ ~SendHasRoom(c)
         THEN UNCHANGED chans
         ELSE chans' = [chans EXCEPT ![c].buf = Append(@, pubs[p].msg)]
    /\ pubs' = [pubs EXCEPT ![p].i = @ + 1]
    /\ UNCHANGED <<last_id, senders, strong_count, lock, subs, ret,
                   calls, log, regAt, got, raced, woke>>

\* BroadcasterInner::broadcast: one iteration of `for sender in &self.senders`.
\* A failed send is logged and skipped; a send to a full queue of a live
\* receiver blocks (the step is not enabled).
BroadcastSend(p) ==
    /\ pubs[p].st = "sending"
    /\ pubs[p].i <= Len(senders)
    /\ LET c == senders[pubs[p].i].chan IN
         IF SendFails(c)
         THEN UNCHANGED chans
         ELSE /\ SendHasRoom(c)
              /\ chans' = [chans EXCEPT ![c].buf = Append(@, pubs[p].msg)]
    /\ pubs' = [pubs EXCEPT ![p].i = @ + 1]
    /\ UNCHANGED <<last_id, senders, strong_count, lock, subs, ret,
                   calls, log, regAt, got, raced, woke>>

\* The loop is over: the MutexGuard is dropped and broadcast returns ().
BroadcastReturn(p) ==
    /\ pubs[p].st = "sending"
    /\ pubs[p].i > Len(senders)
    /\ lock' = 0
    /\ pubs' = [pubs EXCEPT ![p] = [st |-> "idle", msg |-> 0, i |-> 0]]
    /\ UNCHANGED <<last_id, senders, strong_count, chans, subs, ret,
                   calls, log, regAt, got, raced, woke>>

\* Variant in which a cloned publisher handle registers an endpoint of its own.
BroadcasterCloneAs_Register(p) ==
    /\ pubs[p].st = "idle"
    /\ pubs' = Append(pubs, [st |-> "idle", msg |-> 0, i |-> 0])
    /\ strong_count' = strong_count + 1
    /\ last_id' = UniqueIdNext(last_id)
    /\ chans' = Append(chans, NewChannel)
    /\ senders' = Append(senders, [id |-> UniqueIdNext(last_id),
                                   chan |-> Len(chans) + 1])
    /\ UNCHANGED <<lock, subs, ret, calls, log, regAt, got, raced, woke>>

\* Broadcaster::clone_as / Broadcaster::clone: a new handle on the same hub.
BroadcasterCloneAs(p) ==
    /\ pubs[p].st = "idle"
    /\ pubs' = Append(pubs, [st |-> "idle", msg |-> 0, i |-> 0])
    /\ strong_count' = strong_count + 1
    /\ UNCHANGED <<last_id, senders, lock, chans, subs, ret,
                   calls, log, regAt, got, raced, woke>>

\* Variant in which the drop of the last publisher handle clears the queues.
BroadcasterDrop_Disconnect(p) ==
    /\ pubs[p].st = "idle"
    /\ pubs' = [pubs EXCEPT ![p].st = "dropped"]
    /\ strong_count' = strong_count - 1
    /\ chans' = IF \A q \in 1..Len(pubs) : q # p => pubs[q].st = "dropped"
                THEN [c \in 1..Len(chans) |-> [chans[c] EXCEPT !.buf = <<>>]]
                ELSE chans
    /\ UNCHANGED <<last_id, senders, lock, subs, ret,
                   calls, log, regAt, got, raced, woke>>

\* drop(Broadcaster): releases one reference to the hub.
BroadcasterDrop(p) ==
    /\ pubs[p].st = "idle"
    /\ pubs' = [pubs EXCEPT ![p].st = "dropped"]
    /\ strong_count' = strong_count - 1
    /\ UNCHANGED <<last_id, senders, lock, chans, subs, ret,
                   calls, log, regAt, got, raced, woke>>

----------------------------------------------------------------------------
\* Subscriber::recv: the call. Receiver::recv parks the thread while the
\* queue is empty and a sender exists ("parked": the call found the queue empty).
RecvCall(s) ==
    /\ subs[s].st = "idle"
    /\ subs' = [subs EXCEPT ![s].st = IF Pending(s) = <<>> THEN "parked" ELSE "recv"]
    /\ ret' = [ret EXCEPT ![s] = NoRet]
    /\ UNCHANGED <<last_id, senders, strong_count, lock, chans, pubs,
                   calls, log, regAt, got, raced, woke>>

\* Variant in which recv never waits.
RecvReady_NonBlocking(s) == TRUE

\* Receiver::recv returns: the oldest queued message, or RecvError when the
\* queue is empty and every sender is gone.
RecvReady(s) == Pending(s) # <<>> \/ SendersDropped

\* Variant with a shared backlog: a message taken by one subscriber is taken
\* out of every queue that has it at its head.
RecvReturn_Shared(s) ==
    /\ subs[s].st \in {"recv", "parked"}
    /\ RecvReady(s)
    /\ subs' = [subs EXCEPT ![s].st = "idle"]
    /\ IF Pending(s) # <<>>
       THEN /\ ret' = [ret EXCEPT ![s] = Ok(Head(Pending(s)))]
            /\ got' = [got EXCEPT ![s] = Append(@, Head(Pending(s)))]
            /\ chans' = [c \in 1..Len(chans) |->
                           IF /\ chans[c].buf # <<>>
                              /\ Head(chans[c].buf) = Head(Pending(s))
                           THEN [chans[c] EXCEPT !.buf = Tail(@)]
                           ELSE chans[c]]
       ELSE /\ ret' = [ret EXCEPT ![s] = ErrDisconnected]
            /\ UNCHANGED <<got, chans>>
    /\ UNCHANGED <<last_id, senders, strong_count, lock, pubs,
                   calls, log, regAt, raced, woke>>

RecvReturn(s) ==
    /\ subs[s].st \in {"recv", "parked"}
    /\ RecvReady(s)
    /\ subs' = [subs EXCEPT ![s].st = "idle"]
    /\ IF Pending(s) # <<>>
       THEN /\ ret' = [ret EXCEPT ![s] = Ok(Head(Pending(s)))]
            /\ got' = [got EXCEPT ![s] = Append(@, Head(Pending(s)))]
            /\ chans' = [chans EXCEPT ![subs[s].chan].buf = Tail(@)]
       ELSE /\ ret' = [ret EXCEPT ![s] = ErrDisconnected]
            /\ UNCHANGED <<got, chans>>
    /\ UNCHANGED <<last_id, senders, strong_count, lock, pubs,
                   calls, log, regAt, raced, woke>>

\* Variant in which try_recv waits for a message.
TryRecvReady_Blocking(s) == Pending(s) # <<>>

\* Subscriber::try_recv: Receiver::try_recv never parks; it returns the oldest
\* queued message, TryRecvError::Empty, or TryRecvError::Disconnected when the
\* queue is empty and every sender is gone.
TryRecvReady(s) == TRUE
TryRecv(s) ==
    /\ subs[s].st = "idle"
    /\ TryRecvReady(s)
    /\ IF Pending(s) # <<>>
       THEN /\ ret' = [ret EXCEPT ![s] = Ok(Head(Pending(s)))]
            /\ got' = [got EXCEPT ![s] = Append(@, Head(Pending(s)))]
            /\ chans' = [chans EXCEPT ![subs[s].chan].buf = Tail(@)]
       ELSE /\ ret' = [ret EXCEPT ![s] =
                         IF SendersDropped THEN ErrDisconnected ELSE ErrEmpty]
            /\ UNCHANGED <<got, chans>>
    /\ UNCHANGED <<last_id, senders, strong_count, lock, pubs, subs,
                   calls, log, regAt, raced, woke>>

\* Subscriber::clone_as / Subscriber::clone: the call, up to the request for
\* the hub mutex.
CloneCall(s) ==
    /\ subs[s].st = "idle"
    /\ subs' = [subs EXCEPT ![s].st = "clone"]
    /\ ret' = [ret EXCEPT ![s] = NoRet]
    /\ UNCHANGED <<last_id, senders, strong_count, lock, chans, pubs,
                   calls, log, regAt, got, raced, woke>>

\* Variant with a lost update: two clone_as calls under way at once read the
\* same registry, and the later push overwrites the earlier one.
CloneRegister_Unsynchronised(s) ==
    /\ subs[s].st = "clone"
    /\ LockFree
    /\ LET id == UniqueIdNext(last_id)
           c == Len(chans) + 1
           e == [id |-> id, chan |-> c]
       IN /\ chans' = Append(chans, NewChannel)
          /\ last_id' = id
          /\ senders' = IF \E o \in 1..Len(subs) : o # s /\ subs[o].st = "clone"
                        THEN [senders EXCEPT ![Len(senders)] = e]
                        ELSE Append(senders, e)
          /\ subs' = Append([subs EXCEPT ![s].st = "idle"],
                            [st |-> "idle", id |-> id, chan |-> c])
    /\ strong_count' = strong_count + 1
    /\ ret' = Append(ret, NoRet)
    /\ regAt' = Append(regAt, Len(log))
    /\ got' = Append(got, <<>>)
    /\ raced' = Append(raced, \E o \in 1..Len(subs) : o # s /\ subs[o].st = "clone")
    /\ UNCHANGED <<lock, pubs, calls, log, woke>>

\* Variant with a shared queue: the clone is handed the receiving end of its
\* parent's queue, and the registry gains a second sender to that queue.
CloneRegister_SharedQueue(s) ==
    /\ subs[s].st = "clone"
    /\ LockFree
    /\ LET id == UniqueIdNext(last_id)
           c == subs[s].chan
       IN /\ chans' = Append(chans, NewChannel)
          /\ last_id' = id
          /\ senders' = Append(senders, [id |-> id, chan |-> c])
          /\ subs' = Append([subs EXCEPT ![s].st = "idle"],
                            [st |-> "idle", id |-> id, chan |-> c])
    /\ strong_count' = strong_count + 1
    /\ ret' = Append(ret, NoRet)
    /\ regAt' = Append(regAt, Len(log))
    /\ got' = Append(got, <<>>)
    /\ raced' = Append(raced, \E o \in 1..Len(subs) : o # s /\ subs[o].st = "clone")
    /\ UNCHANGED <<lock, pubs, calls, log, woke>>

\* Variant that takes the identifiers with UniqueId::clone (which returns the
\* next identifier, lib.rs:22-27) instead of a copy of last_id.
CloneRegister_IdByClone(s) ==
    /\ subs[s].st = "clone"
    /\ LockFree
    /\ LET id == UniqueIdNext(last_id)
           c == Len(chans) + 1
       IN /\ chans' = Append(chans, NewChannel)
          /\ last_id' = id
          /\ senders' = Append(senders, [id |-> UniqueIdNext(id), chan |-> c])
          /\ subs' = Append([subs EXCEPT ![s].st = "idle"],
                            [st |-> "idle", id |-> UniqueIdNext(id), chan |-> c])
    /\ strong_count' = strong_count + 1
    /\ ret' = Append(ret, NoRet)
    /\ regAt' = Append(regAt, Len(log))
    /\ got' = Append(got, <<>>)
    /\ raced' = Append(raced, \E o \in 1..Len(subs) : o # s /\ subs[o].st = "clone")
    /\ UNCHANGED <<lock, pubs, calls, log, woke>>

\* (*self.inner).lock().unwrap().add_receiver(), then the new handle is built
\* around the returned receiver and a clone of the Arc.
CloneRegister(s) ==
    /\ subs[s].st = "clone"
    /\ LockFree
    /\ LET id == UniqueIdNext(last_id)
           c == Len(chans) + 1
       IN /\ chans' = Append(chans, NewChannel)
          /\ last_id' = id
          /\ senders' = Append(senders, [id |-> id, chan |-> c])
          /\ subs' = Append([subs EXCEPT ![s].st = "idle"],
                            [st |-> "idle", id |-> id, chan |-> c])
    /\ strong_count' = strong_count + 1
    /\ ret' = Append(ret, NoRet)
    /\ regAt' = Append(regAt, Len(log))
    /\ got' = Append(got, <<>>)
    /\ raced' = Append(raced, \E o \in 1..Len(subs) : o # s /\ subs[o].st = "clone")
    /\ UNCHANGED <<lock, pubs, calls, log, woke>>

\* Variant with pruning: the drop also removes the subscriber's endpoint from
\* the registry.
SubscriberDrop_Prune(s) ==
    /\ subs[s].st = "idle"
    /\ LockFree
    /\ subs' = [subs EXCEPT ![s].st = "dropped"]
    /\ chans' = DropReceiver(subs[s].chan)
    /\ senders' = SelectSeq(senders, LAMBDA e : e.chan # subs[s].chan)
    /\ strong_count' = strong_count - 1
    /\ ret' = [ret EXCEPT ![s] = NoRet]
    /\ got' = [got EXCEPT ![s] = <<>>]
    /\ UNCHANGED <<last_id, lock, pubs, calls, log, regAt, raced, woke>>

\* drop(Subscriber): the receiver goes, and one reference to the hub.
SubscriberDrop(s) ==
    /\ subs[s].st = "idle"
    /\ subs' = [subs EXCEPT ![s].st = "dropped"]
    /\ chans' = DropReceiver(subs[s].chan)
    /\ strong_count' = strong_count - 1
    /\ ret' = [ret EXCEPT ![s] = NoRet]
    /\ got' = [got EXCEPT ![s] = <<>>]
    /\ woke' = (woke \/ \E p \in 1..Len(pubs) : BlockedOn(p, subs[s].chan))
    /\ UNCHANGED <<last_id, senders, lock, pubs, calls, log, regAt, raced>>

----------------------------------------------------------------------------
\* Clone calls made and not yet registered.
PendingClones == Cardinality({s \in 1..Len(subs) : subs[s].st = "clone"})

Next ==
    \/ \E p \in 1..Len(pubs) : calls < MaxBroadcasts /\ BroadcastCall(p)
    \/ \E p \in 1..Len(pubs) : BroadcastLock(p)
    \/ \E p \in 1..Len(pubs) : BroadcastSend(p)
    \/ \E p \in 1..Len(pubs) : BroadcastReturn(p)
    \/ \E p \in 1..Len(pubs) :
          Len(pubs) < Cardinality(Publishers) /\ BroadcasterCloneAs(p)
    \/ \E p \in 1..Len(pubs) : BroadcasterDrop(p)
    \/ \E s \in 1..Len(subs) : RecvCall(s)
    \/ \E s \in 1..Len(subs) : RecvReturn(s)
    \/ \E s \in 1..Len(subs) : TryRecv(s)
    \/ \E s \in 1..Len(subs) :
          Len(subs) + PendingClones < MaxSubs /\ CloneCall(s)
    \/ \E s \in 1..Len(subs) : CloneRegister(s)
    \/ \E s \in 1..Len(subs) : SubscriberDrop(s)

Spec == Init /\ [][Next]_vars

----------------------------------------------------------------------------
\* Backpressure: one publisher handle, the factory's subscriber and one clone
\* of it, and enough broadcasts to fill a queue of Capacity messages.
MaxBroadcastsBP == 11
SubsBP == {1, 2}

NextBP ==
    \/ \E p \in 1..Len(pubs) : calls < MaxBroadcastsBP /\ BroadcastCall(p)
    \/ \E p \in 1..Len(pubs) : BroadcastLock(p)
    \/ \E p \in 1..Len(pubs) : BroadcastSend(p)
    \/ \E p \in 1..Len(pubs) : BroadcastReturn(p)
    \/ \E s \in 1..Len(subs) : RecvCall(s)
    \/ \E s \in 1..Len(subs) : RecvReturn(s)
    \/ \E s \in 1..Len(subs) : TryRecv(s)
    \/ \E s \in 1..Len(subs) :
          Len(subs) + PendingClones < Cardinality(SubsBP) /\ CloneCall(s)
    \/ \E s \in 1..Len(subs) : CloneRegister(s)
    \/ \E s \in 1..Len(subs) : SubscriberDrop(s)

SpecBP == Init /\ [][NextBP]_vars

\* A thread that is inside a call of the library keeps running it: a broadcast
\* that can take the mutex, send or return does so, a recv whose queue holds a
\* message returns, a clone_as that can take the mutex registers. Whether and
\* when the application calls the library is left open.
FairBP ==
    /\ WF_vars(BroadcastLock(1))
    /\ WF_vars(BroadcastSend(1))
    /\ WF_vars(BroadcastReturn(1))
    /\ \A s \in SubsBP : WF_vars(s <= Len(subs) /\ RecvReturn(s))
    /\ \A s \in SubsBP : WF_vars(s <= Len(subs) /\ CloneRegister(s))

\* Delivery under fairness: the subscribers are registered before the first
\* broadcast, as in the tests (the clones are made, then the publisher thread
\* is spawned), and from then on receive with recv() or are dropped.
NextLive ==
    \/ \E p \in 1..Len(pubs) :
          /\ calls < MaxBroadcastsBP
          /\ Len(subs) = Cardinality(SubsBP)
          /\ BroadcastCall(p)
    \/ \E p \in 1..Len(pubs) : BroadcastLock(p)
    \/ \E p \in 1..Len(pubs) : BroadcastSend(p)
    \/ \E p \in 1..Len(pubs) : BroadcastReturn(p)
    \/ \E s \in 1..Len(subs) : RecvCall(s)
    \/ \E s \in 1..Len(subs) : RecvReturn(s)
    \/ \E s \in 1..Len(subs) :
          Len(subs) + PendingClones < Cardinality(SubsBP) /\ CloneCall(s)
    \/ \E s \in 1..Len(subs) : CloneRegister(s)
    \/ \E s \in 1..Len(subs) : SubscriberDrop(s)

SpecLive == Init /\ [][NextLive]_vars /\ FairBP

\* Backpressure under the same fairness, with clone_as free to be called at
\* any time.
SpecBPLive == SpecBP /\ FairBP

----------------------------------------------------------------------------
\* Backpressure with contention: the publisher handle is cloned once Capacity
\* broadcasts were made, so that a second broadcast (and a clone_as) can be
\* waiting for the mutex while a fan-out is parked on a full queue.
MaxBroadcastsBC == 12

NextBC ==
    \/ \E p \in 1..Len(pubs) : calls < MaxBroadcastsBC /\ BroadcastCall(p)
    \/ \E p \in 1..Len(pubs) : BroadcastLock(p)
    \/ \E p \in 1..Len(pubs) : BroadcastSend(p)
    \/ \E p \in 1..Len(pubs) : BroadcastReturn(p)
    \/ \E p \in 1..Len(pubs) :
          /\ Len(pubs) < Cardinality(Publishers)
          /\ calls >= Capacity
          /\ BroadcasterCloneAs(p)
    \/ \E s \in 1..Len(subs) : RecvCall(s)
    \/ \E s \in 1..Len(subs) : RecvReturn(s)
    \/ \E s \in 1..Len(subs) :
          Len(subs) + PendingClones < Cardinality(SubsBP) /\ CloneCall(s)
    \/ \E s \in 1..Len(subs) : CloneRegister(s)
    \/ \E s \in 1..Len(subs) : SubscriberDrop(s)

SpecBC == Init /\ [][NextBC]_vars

----------------------------------------------------------------------------
\* Concurrent subscription: one publisher handle, subscribers that clone and
\* receive (no handle is dropped).
MaxBroadcastsCC == 1
MaxSubsCC == 4

NextCC ==
    \/ \E p \in 1..Len(pubs) : calls < MaxBroadcastsCC /\ BroadcastCall(p)
    \/ \E p \in 1..Len(pubs) : BroadcastLock(p)
    \/ \E p \in 1..Len(pubs) : BroadcastSend(p)
    \/ \E p \in 1..Len(pubs) : BroadcastReturn(p)
    \/ \E s \in 1..Len(subs) : RecvCall(s)
    \/ \E s \in 1..Len(subs) : RecvReturn(s)
    \/ \E s \in 1..Len(subs) :
          Len(subs) + PendingClones < MaxSubsCC /\ CloneCall(s)
    \/ \E s \in 1..Len(subs) : CloneRegister(s)

SpecCC == Init /\ [][NextCC]_vars

----------------------------------------------------------------------------
\* Vocabulary of the properties

Live(s) == subs[s].st # "dropped"

\* What subscriber s has been handed so far: the values its receives returned,
\* followed by what waits in its queue.
Seen(s) == got[s] \o Pending(s)

\* The messages whose broadcast took the hub lock after s was registered.
After(s) == SubSeq(log, regAt[s] + 1, Len(log))

IsPrefix(a, b) == Len(a) <= Len(b) /\ a = SubSeq(b, 1, Len(a))

NoDuplicates(q) == \A j, k \in 1..Len(q) : q[j] = q[k] => j = k

----------------------------------------------------------------------------
\* C2: for every live subscriber, the values it has received followed by the
\* values queued for it are, in this order, the first messages whose broadcast
\* took the hub lock after the subscriber was registered (FIFO, no reordering).
C2_FifoInLockOrder ==
    \A s \in 1..Len(subs) : Live(s) => IsPrefix(Seen(s), After(s))

\* C2 witness: two publisher handles took the lock in the opposite order of
\* their calls, and a subscriber received both messages in lock order.
C2_Witness ==
    /\ log = <<2, 1>>
    /\ \E s \in 1..Len(subs) : got[s] = <<2, 1>>

\* C3: any two live subscribers agree on the relative order of any two
\* messages both of them were handed.
C3_SharedTotalOrder ==
    \A s1, s2 \in 1..Len(subs) : (s1 < s2 /\ Live(s1) /\ Live(s2)) =>
        LET a == Seen(s1)
            b == Seen(s2)
        IN \A i, j \in 1..Len(a) : \A k, l \in 1..Len(b) :
              (a[i] = b[k] /\ a[j] = b[l]) => ((i < j) <=> (k < l))

\* C3 witness: two publisher handles broadcast concurrently (both are
\* inside a call at once was needed to invert call and lock order), and two
\* subscribers each received both messages.
C3_Witness ==
    /\ log = <<2, 1>>
    /\ Len(subs) >= 2
    /\ got[1] = <<2, 1>>
    /\ got[2] = <<2, 1>>

\* C4: a subscriber made by clone_as is handed only messages whose broadcast
\* took the hub lock after its registration, so it starts with an empty queue
\* and never sees history.
C4_NoReplay ==
    \A s \in 2..Len(subs) : Live(s) =>
        /\ Len(Seen(s)) <= Len(log) - regAt[s]
        /\ \A k \in 1..Len(Seen(s)) :
              \E j \in (regAt[s] + 1)..Len(log) : log[j] = Seen(s)[k]

\* C4 witness: a clone registered after a broadcast has received a later
\* message, and only that.
C4_Witness ==
    \E s \in 2..Len(subs) :
        /\ regAt[s] = 1
        /\ Len(log) = 2
        /\ got[s] = <<log[2]>>

\* The place of subscriber s's endpoint in the registry.
Idx(s) == CHOOSE j \in 1..Len(senders) : senders[j].chan = subs[s].chan

\* A fan-out is under way that has not yet reached the endpoint of s.
NotYetReached(s) ==
    \E p \in 1..Len(pubs) : pubs[p].st = "sending" /\ pubs[p].i <= Idx(s)

\* What s must have been handed: every message logged after its registration,
\* but for the one whose fan-out has not reached it yet.
Expected(s) ==
    IF NotYetReached(s) THEN SubSeq(log, regAt[s] + 1, Len(log) - 1) ELSE After(s)

\* C5: however clone_as calls interleave with each other and with broadcasts,
\* the registry holds one endpoint per subscriber made, all endpoints and all
\* subscribers' queues are distinct, and every live subscriber was handed every
\* message logged after its registration exactly once.
C5_ConcurrentClones ==
    /\ Len(senders) = Len(subs)
    /\ \A j, k \in 1..Len(senders) :
          senders[j].chan = senders[k].chan => j = k
    /\ \A s1, s2 \in 1..Len(subs) :
          subs[s1].chan = subs[s2].chan => s1 = s2
    /\ \A s \in 1..Len(subs) :
          \E j \in 1..Len(senders) : senders[j].chan = subs[s].chan
    /\ \A s \in 1..Len(subs) : Live(s) =>
          /\ NoDuplicates(Seen(s))
          /\ Seen(s) = Expected(s)

\* C5 witness: two clone_as calls were pending together (subscriber 3 was
\* registered while the call that made subscriber 4 was waiting), and both
\* clones received the message broadcast after their registration.
C5_Witness ==
    /\ Len(subs) = 4
    /\ raced[3]
    /\ Len(log) >= 1
    /\ regAt[3] = Len(log) - 1 /\ regAt[4] = Len(log) - 1
    /\ got[3] = <<log[Len(log)]>>
    /\ got[4] = <<log[Len(log)]>>

----------------------------------------------------------------------------
\* Subscriber s keeps calling recv: again and again it is inside recv (or it
\* was dropped, or was never made).
KeepsReceiving(s) ==
    []<>(s > Len(subs) \/ subs[s].st \in {"recv", "parked", "dropped"})

\* The broadcast of m took the hub lock after s was registered.
LoggedFor(s, m) ==
    /\ s <= Len(subs)
    /\ \E j \in (regAt[s] + 1)..Len(log) : log[j] = m

\* A recv of s has returned m, or s is no longer alive.
ReturnedOrDropped(s, m) ==
    /\ s <= Len(subs)
    /\ (subs[s].st = "dropped" \/ m \in Range(got[s]))

\* C1 (as claimed): a subscriber that stays alive and keeps calling recv is
\* eventually returned every message whose broadcast took the hub lock after
\* its registration, whatever the other subscribers do.
C1_EventuallyReceived_Alone ==
    \A s \in SubsBP : KeepsReceiving(s) =>
        \A m \in 1..MaxBroadcastsBP : LoggedFor(s, m) ~> ReturnedOrDropped(s, m)

\* C1 (amended): if every subscriber of the hub keeps calling recv (or is
\* dropped), every subscriber is eventually returned every message whose
\* broadcast took the hub lock after its registration.
C1_EventuallyReceived ==
    (\A o \in SubsBP : KeepsReceiving(o)) =>
        \A s \in SubsBP : \A m \in 1..MaxBroadcastsBP :
            LoggedFor(s, m) ~> ReturnedOrDropped(s, m)

\* C1 witness: more messages than a queue holds were broadcast to two
\* subscribers registered before the first of them, and both were returned
\* all of them.
C1_Witness ==
    /\ Len(subs) = 2
    /\ regAt[2] = 0
    /\ Len(log) > Capacity
    /\ got[1] = log
    /\ got[2] = log

----------------------------------------------------------------------------
\* C6: a fan-out is never stopped by the endpoint of a dropped subscriber (the
\* send fails at once, nothing is queued for it), and when the loop is over
\* every live subscriber has been handed the message and the call can return.
C6_DeadEndpointSkipped ==
    /\ \A c \in 1..Len(chans) : ~chans[c].rx_alive => chans[c].buf = <<>>
    /\ \A p \in 1..Len(pubs) : pubs[p].st = "sending" =>
          IF pubs[p].i <= Len(senders)
          THEN SendFails(senders[pubs[p].i].chan) => ENABLED BroadcastSend(p)
          ELSE /\ ENABLED BroadcastReturn(p)
               /\ \A s \in 1..Len(subs) :
                     Live(s) => pubs[p].msg \in Range(Seen(s))

\* C6 witness: a broadcast parked on the full queue of subscriber 1 was woken
\* by the drop of that subscriber, went on, and delivered to subscriber 2.
C6_Witness ==
    /\ woke
    /\ Len(subs) = 2
    /\ ~Live(1) /\ Live(2)
    /\ pubs[1].st = "sending"
    /\ pubs[1].i > Len(senders)
    /\ pubs[1].msg = Capacity + 1
    /\ pubs[1].msg \in Range(Seen(2))

----------------------------------------------------------------------------
\* A step in which try_recv of subscriber s returned.
TryRecvStep(s) ==
    /\ subs[s].st = "idle"
    /\ subs'[s].st = "idle"
    /\ (ret'[s] # ret[s] \/ got'[s] # got[s])

\* Subscriber s holds the only handle left on the hub.
OnlyHandleLeft(s) == Live(s) /\ strong_count = 1

\* C7 (as claimed): when s holds the last handle of the hub and its queue is
\* empty, a recv in progress can return (with the disconnected error), and a
\* try_recv returns the disconnected error.
C7_EndOfStream ==
    /\ [](\A s \in 1..Len(subs) :
            (OnlyHandleLeft(s) /\ Pending(s) = <<>> /\ subs[s].st = "parked")
                => ENABLED RecvReturn(s))
    /\ [][\A s \in 1..Len(subs) :
            (OnlyHandleLeft(s) /\ Pending(s) = <<>> /\ TryRecvStep(s))
                => ret'[s] = ErrDisconnected]_vars

----------------------------------------------------------------------------
\* C8: try_recv can always complete at once, in every state (also while a
\* broadcast holds the hub lock or is parked on a full queue); it returns the
\* Empty error on an empty queue and the oldest queued message otherwise.
C8_TryRecvNeverBlocks ==
    /\ [](\A s \in 1..Len(subs) : subs[s].st = "idle" => ENABLED TryRecv(s))
    /\ [][\A s \in 1..Len(subs) : TryRecvStep(s) =>
            IF Pending(s) = <<>>
            THEN ret'[s] = ErrEmpty /\ chans' = chans /\ got' = got
            ELSE /\ ret'[s] = Ok(Head(Pending(s)))
                 /\ chans'[subs[s].chan].buf = Tail(Pending(s))]_vars

\* C8 witness: the broadcast of message Capacity + 1 has delivered to
\* subscriber 1 and is parked on the full queue of subscriber 2; meanwhile
\* subscriber 1 received that message and a further try_recv returned Empty.
C8_Witness ==
    /\ Len(subs) = 2
    /\ senders[2].chan = subs[2].chan
    /\ BlockedOn(1, subs[2].chan)
    /\ pubs[1].msg \in Range(got[1])
    /\ ret[1] = ErrEmpty

----------------------------------------------------------------------------
SomePublisher == \E p \in 1..Len(pubs) : pubs[p].st # "dropped"

\* C9: a recv that found the queue empty, while a publisher handle exists,
\* cannot return as long as the queue is empty; when it returns, it returns
\* the message a broadcast put at the head of the queue, as Ok.
C9_RecvBlocksUntilMessage ==
    /\ [](\A s \in 1..Len(subs) :
            (subs[s].st = "parked" /\ Pending(s) = <<>> /\ SomePublisher)
                => ~ENABLED RecvReturn(s))
    /\ [][\A s \in 1..Len(subs) :
            (subs[s].st = "parked" /\ subs'[s].st = "idle")
                => /\ Pending(s) # <<>>
                   /\ ret'[s] = Ok(Head(Pending(s)))]_vars

\* C9 witness: a subscriber parked in recv has been sent a message by a
\* broadcast that is still under way.
C9_Witness ==
    \E s \in 1..Len(subs) : \E p \in 1..Len(pubs) :
        /\ subs[s].st = "parked"
        /\ pubs[p].st = "sending"
        /\ Pending(s) = <<pubs[p].msg>>

----------------------------------------------------------------------------
\* A step in which a publisher or subscriber handle is dropped.
DropStep ==
    \/ \E p \in 1..Len(pubs) : pubs[p].st # "dropped" /\ pubs'[p].st = "dropped"
    \/ \E o \in 1..Len(subs) : subs[o].st # "dropped" /\ subs'[o].st = "dropped"

\* C10: dropping a handle changes neither the queue nor the received values of
\* any subscriber that stays alive, and once no publisher handle is left every
\* live subscriber still holds, received or queued in order, every message
\* logged after its registration.
C10_DropKeepsPending ==
    /\ [][DropStep => \A s \in 1..Len(subs) :
            subs'[s].st # "dropped" =>
                /\ chans'[subs[s].chan] = chans[subs[s].chan]
                /\ got'[s] = got[s]]_vars
    /\ [](~SomePublisher => \A s \in 1..Len(subs) :
            Live(s) => Seen(s) = After(s))

\* C10 witness: both publisher handles are dropped after two broadcasts; a
\* live subscriber was returned the first message and still has the second
\* one queued.
C10_Witness ==
    /\ ~SomePublisher
    /\ Len(pubs) = 2
    /\ \E s \in 1..Len(subs) :
          /\ Live(s)
          /\ Len(log) = 2
          /\ ret[s] = Ok(log[1])
          /\ Pending(s) = <<log[2]>>

----------------------------------------------------------------------------
\* A fan-out is under way (some broadcast holds the hub mutex).
FanOutUnderWay == \E p \in 1..Len(pubs) : pubs[p].st = "sending"

\* C11: the registry does not change while a fan-out is under way; every
\* endpoint of the registry was registered before the fan-out took the lock,
\* the live subscribers that hold its message are exactly those the loop has
\* passed, and a subscriber never holds a message logged before its
\* registration (a concurrent clone_as is wholly before or wholly after).
C11_FanOutAtomic ==
    /\ [][FanOutUnderWay => senders' = senders]_vars
    /\ [](\A p \in 1..Len(pubs) : pubs[p].st = "sending" =>
            /\ pubs[p].msg = log[Len(log)]
            /\ \A s \in 1..Len(subs) : regAt[s] < Len(log)
            /\ \A s \in 1..Len(subs) : Live(s) =>
                  (pubs[p].msg \in Range(Seen(s)) <=> Idx(s) < pubs[p].i))
    /\ [](\A s \in 1..Len(subs) : \A j \in 1..Len(log) :
            (Live(s) /\ log[j] \in Range(Seen(s))) => regAt[s] < j)

\* C11 witness: a clone_as call waits for the mutex while a fan-out over a
\* registry of two endpoints has sent to the first of them only.
C11_Witness ==
    /\ Len(senders) = 2
    /\ \E p \in 1..Len(pubs) : pubs[p].st = "sending" /\ pubs[p].i = 2
    /\ \E s \in 1..Len(subs) : subs[s].st = "clone"

----------------------------------------------------------------------------
\* C12: no queue ever holds more than Capacity messages; a broadcast that has
\* reached a live subscriber whose queue is full can neither enqueue nor skip
\* (its send step is not enabled), and it stops being parked there only by a
\* step that takes a message from that queue or drops its receiver.
C12_BoundedBacklog ==
    /\ [](\A c \in 1..Len(chans) : Len(chans[c].buf) <= Capacity)
    /\ [](\A p \in 1..Len(pubs) : \A c \in 1..Len(chans) :
            BlockedOn(p, c) => ~ENABLED BroadcastSend(p))
    /\ [][\A p \in 1..Len(pubs) : \A c \in 1..Len(chans) :
            (BlockedOn(p, c) /\ ~BlockedOn(p, c)') =>
                /\ pubs' = pubs
                /\ \/ chans'[c].buf = Tail(chans[c].buf)
                   \/ ~chans'[c].rx_alive]_vars

\* C12 witness: the broadcast of message Capacity + 1 is parked on the full
\* queue of subscriber 1, which holds the Capacity messages before it.
C12_Witness ==
    /\ BlockedOn(1, subs[1].chan)
    /\ Len(Pending(1)) = Capacity
    /\ pubs[1].msg = Capacity + 1
    /\ pubs[1].msg \notin Range(Pending(1))

----------------------------------------------------------------------------
\* Some broadcast is parked on the full queue of a live subscriber.
SomeBlocked == \E p \in 1..Len(pubs) : \E c \in 1..Len(chans) : BlockedOn(p, c)

\* C13: while a broadcast is parked on a full queue it holds the hub mutex:
\* no other broadcast can take the mutex or send, no clone_as can register,
\* the subscribers after the full one in the registry do not hold the message;
\* and no step taken from such a state releases the mutex, logs a message,
\* changes the registry or adds a message to any queue.
C13_BackpressureThroughLock ==
    /\ [](\A p \in 1..Len(pubs) : \A c \in 1..Len(chans) : BlockedOn(p, c) =>
            /\ lock = p
            /\ \A q \in 1..Len(pubs) : q # p =>
                  /\ pubs[q].st # "sending"
                  /\ ~ENABLED BroadcastLock(q)
                  /\ ~ENABLED BroadcastSend(q)
            /\ \A s \in 1..Len(subs) : ~ENABLED CloneRegister(s)
            /\ \A s \in 1..Len(subs) :
                  (Live(s) /\ Idx(s) > pubs[p].i) =>
                      pubs[p].msg \notin Range(Seen(s)))
    /\ [][SomeBlocked =>
            /\ lock' = lock
            /\ log' = log
            /\ senders' = senders
            /\ \A c \in 1..Len(chans) :
                  Len(chans'[c].buf) <= Len(chans[c].buf)]_vars

\* C13 witness: the fan-out of publisher 1 is parked on the full queue of
\* subscriber 1, the broadcast of publisher 2 waits for the mutex, and
\* subscriber 2, after subscriber 1 in the registry, does not hold the message.
C13_Witness ==
    /\ Len(pubs) = 2 /\ Len(subs) = 2
    /\ pubs[1].i = 1
    /\ BlockedOn(1, subs[1].chan)
    /\ pubs[2].st = "called"
    /\ Live(2)
    /\ regAt[2] < Len(log)
    /\ pubs[1].msg \notin Range(Seen(2))

----------------------------------------------------------------------------
\* C14: the registry holds one endpoint per subscriber ever made (the
\* factory's and one per completed clone_as), and a step changes it only by
\* appending one entry when a clone_as completes: no drop, broadcast or
\* failed send removes or reorders an entry.
C14_RegistryOnlyGrows ==
    /\ [](Len(senders) = Len(subs))
    /\ [][\/ senders' = senders
          \/ /\ \E s \in 1..Len(subs) :
                   subs[s].st = "clone" /\ subs'[s].st = "idle"
             /\ Len(senders') = Len(senders) + 1
             /\ SubSeq(senders', 1, Len(senders)) = senders]_vars

\* C14 witness: subscriber 1 and a publisher handle were dropped, a fan-out
\* has passed the dead endpoint of subscriber 1 (its send failed), and the
\* registry still holds both endpoints in registration order.
C14_Witness ==
    /\ Len(subs) = 2 /\ Len(pubs) = 2
    /\ ~Live(1)
    /\ pubs[2].st = "dropped"
    /\ pubs[1].st = "sending" /\ pubs[1].i = 2
    /\ Len(senders) = 2
    /\ senders[1].chan = subs[1].chan
    /\ senders[2].chan = subs[2].chan

----------------------------------------------------------------------------
\* The live subscriber handles that hold the receiving end (same identifier,
\* same queue) of the j-th endpoint of the registry.
Holders(j) ==
    {s \in 1..Len(subs) : /\ Live(s)
                          /\ subs[s].chan = senders[j].chan
                          /\ subs[s].id = senders[j].id}

\* No two subscriber handles hold the same receiving end.
ReceiversDistinct ==
    \A s1, s2 \in 1..Len(subs) :
        (Live(s1) /\ Live(s2) /\ subs[s1].chan = subs[s2].chan) => s1 = s2

\* C15 (as claimed): every endpoint of the registry has its receiving end
\* held by exactly one live subscriber handle, and no two handles hold the
\* same receiving end.
C15_OneToOne_AllLive ==
    /\ \A j \in 1..Len(senders) : Cardinality(Holders(j)) = 1
    /\ ReceiversDistinct

\* C15 (amended): every endpoint of the registry whose receiver still exists
\* has its receiving end held by exactly one live subscriber handle, the
\* endpoint of a dropped subscriber stays registered with no holder, every
\* live handle holds the receiving end of exactly one registered endpoint,
\* and no two handles hold the same receiving end.
C15_OneToOne ==
    /\ \A j \in 1..Len(senders) :
          Cardinality(Holders(j)) =
              IF chans[senders[j].chan].rx_alive THEN 1 ELSE 0
    /\ \A s \in 1..Len(subs) : Live(s) =>
          Cardinality({j \in 1..Len(senders) : s \in Holders(j)}) = 1
    /\ ReceiversDistinct

\* C15 witness: subscriber 1 was dropped after a clone_as made subscriber 2;
\* both endpoints are registered, only the second has a holder.
C15_Witness ==
    /\ Len(senders) = 2
    /\ ~Live(1)
    /\ Holders(1) = {}
    /\ Holders(2) = {2}

----------------------------------------------------------------------------
\* C16: the factory's endpoint has identifier 1 and the n-th registration by
\* clone_as has identifier n + 1, so identifiers are unique and strictly
\* increasing along the registry; last_id is the identifier of the last
\* entry; and each subscriber's receiving end carries the identifier of the
\* registry entry for the same queue.
C16_IdentifiersIncrease ==
    /\ senders[1].id = UniqueIdNew
    /\ \A j \in 1..Len(senders) : senders[j].id = j
    /\ \A j, k \in 1..Len(senders) : j < k => senders[j].id < senders[k].id
    /\ last_id = senders[Len(senders)].id
    /\ \A s \in 1..Len(subs) : \A j \in 1..Len(senders) :
          senders[j].chan = subs[s].chan <=> senders[j].id = subs[s].id

\* C16 witness: three clone_as calls completed, one of them while another
\* was waiting for the mutex; the last identifier issued is 4.
C16_Witness ==
    /\ Len(senders) = 4
    /\ \E s \in 2..Len(subs) : raced[s]
    /\ last_id = 4
    /\ subs[4].id = 4

----------------------------------------------------------------------------
\* A step in which a publisher handle is cloned.
PublisherCloneStep == Len(pubs') = Len(pubs) + 1

\* C17: a step that clones a publisher handle changes neither the registry,
\* nor last_id, nor any queue, nor the mutex, nor any subscriber; and when the
\* loop of a broadcast is over, whichever handle made the call, every live
\* subscriber has been handed its message.
C17_PublisherCloneFrame ==
    /\ [][PublisherCloneStep =>
            /\ senders' = senders
            /\ last_id' = last_id
            /\ chans' = chans
            /\ lock' = lock
            /\ subs' = subs]_vars
    /\ [](\A p \in 1..Len(pubs) :
            (pubs[p].st = "sending" /\ pubs[p].i > Len(senders)) =>
                \A s \in 1..Len(subs) :
                    Live(s) => pubs[p].msg \in Range(Seen(s)))

\* C17 witness: the cloned publisher handle has finished a fan-out to two
\* live subscribers, both of which hold its message.
C17_Witness ==
    /\ Len(pubs) = 2 /\ Len(subs) = 2
    /\ Live(1) /\ Live(2)
    /\ pubs[2].st = "sending"
    /\ pubs[2].i > Len(senders)
    /\ pubs[2].msg \in Range(Seen(1))
    /\ pubs[2].msg \in Range(Seen(2))

----------------------------------------------------------------------------
\* A step in which a recv or a try_recv of subscriber s returned.
ReceiveStep(s) ==
    \/ subs[s].st \in {"recv", "parked"} /\ subs'[s].st = "idle"
    \/ TryRecvStep(s)

\* A step in which subscriber s is dropped.
SubscriberDropStep(s) == subs[s].st # "dropped" /\ subs'[s].st = "dropped"

\* The queues and received values of the subscribers other than s stay as
\* they are.
OthersUntouched(s) ==
    /\ \A c \in 1..Len(chans) : c # subs[s].chan => chans'[c] = chans[c]
    /\ \A o \in 1..Len(subs) : o # s => got'[o] = got[o]

\* C18: a receive of s takes at most the head of s's own queue and leaves the
\* registry and every other subscriber's queue as they are; a drop of s
\* discards what was queued for s without handing it to anyone, so that no
\* live subscriber ever holds a message twice.
C18_QueuesPrivate ==
    /\ [][\A s \in 1..Len(subs) : ReceiveStep(s) =>
            /\ senders' = senders
            /\ OthersUntouched(s)
            /\ \/ chans'[subs[s].chan] = chans[subs[s].chan]
               \/ /\ Pending(s) # <<>>
                  /\ chans'[subs[s].chan].buf = Tail(Pending(s))
                  /\ got'[s] = Append(got[s], Head(Pending(s)))]_vars
    /\ [][\A s \in 1..Len(subs) : SubscriberDropStep(s) =>
            /\ senders' = senders
            /\ OthersUntouched(s)
            /\ chans'[subs[s].chan].buf = <<>>]_vars
    /\ [](\A o \in 1..Len(subs) : Live(o) => NoDuplicates(Seen(o)))

\* C18 witness: subscriber 2 received the first of two messages while both
\* are still queued for subscriber 1.
C18_Witness ==
    /\ Len(subs) = 2
    /\ Live(1) /\ Live(2)
    /\ Len(log) = 2
    /\ Pending(1) = log
    /\ got[2] = <<log[1]>>
    /\ ret[2] = Ok(log[1])
    /\ Pending(2) = <<log[2]>>

----------------------------------------------------------------------------
\* The queue of live subscriber s is full.
Full(s) == s <= Len(subs) /\ Live(s) /\ Len(Pending(s)) = Capacity

\* Publisher p is inside a broadcast call.
InBroadcast(p) == p <= Len(pubs) /\ pubs[p].st \in {"called", "sending"}

\* C19: if every live subscriber whose queue is full eventually receives a
\* message or is dropped, every broadcast call eventually returns; and a
\* broadcast that has reached the endpoint of a dropped subscriber can always
\* go on.
C19_BroadcastReturns ==
    /\ (\A s \in SubsBP : Full(s) ~> ~Full(s)) =>
          \A p \in Publishers : InBroadcast(p) ~> ~InBroadcast(p)
    /\ [](\A p \in 1..Len(pubs) :
            (/\ pubs[p].st = "sending"
             /\ pubs[p].i <= Len(senders)
             /\ SendFails(senders[pubs[p].i].chan)) => ENABLED BroadcastSend(p))

\* C19 witness: a broadcast that was parked on the full queue of subscriber 1
\* when that subscriber was dropped has finished its loop, and every
\* broadcast called so far was logged.
C19_Witness ==
    /\ woke
    /\ ~Live(1)
    /\ Len(log) = calls
    /\ Len(log) > Capacity
    /\ \E p \in 1..Len(pubs) :
          pubs[p].st = "sending" /\ pubs[p].i > Len(senders)

----------------------------------------------------------------------------
\* Subscriber s is inside clone_as, waiting for the hub mutex.
InClone(s) == s <= Len(subs) /\ subs[s].st = "clone"

\* A clone_as caller and a broadcast wait on each other: the broadcast holds
\* the mutex, parked on the full queue of the very subscriber whose clone_as
\* waits for the mutex (and which cannot receive before clone_as returns).
CloneBroadcastDeadlock ==
    \E s \in 1..Len(subs) : \E p \in 1..Len(pubs) :
        subs[s].st = "clone" /\ BlockedOn(p, subs[s].chan)

\* C20 (as claimed): a clone_as call of s eventually returns whenever every
\* other subscriber keeps receiving (the publishers keep running by
\* fairness), whatever the state of s's own queue; and no reachable state has
\* a clone_as caller and a broadcast waiting on each other.
C20_CloneReturns ==
    /\ \A s \in SubsBP :
          (\A o \in SubsBP \ {s} : KeepsReceiving(o)) =>
              (InClone(s) ~> ~InClone(s))
    /\ []~CloneBroadcastDeadlock

====
